---- MODULE Spec2Model ----
(***************************************************************************)
(* SerialReader (serial_reader.py): one caller thread driving the public   *)
(* methods of a SerialReader object, and the daemon threads that           *)
(* start_reading spawns to run _read_loop.  The pyserial port is the       *)
(* environment: every call on it ends in one of the outcomes pyserial can  *)
(* produce (a value, a serial.SerialException, any other exception).       *)
(*                                                                         *)
(* Interleaving.  A reader thread takes one step for the loop test of line *)
(* 133, one for the poll of the port (in_waiting and read, lines 135-136), *)
(* one for Queue.put, one for the test and the load of self.callback       *)
(* (lines 139-140) and one for the call of the callable it loaded.  A      *)
(* method of the caller is one step, except where it waits or tests a flag *)
(* that a reader thread can change before the method acts on it:           *)
(* start_reading (is_connected is tested at line 111, the thread is        *)
(* started at line 121) and the join of stop_reading (line 128).  Time is  *)
(* not modelled: join(timeout=2.0) may return while the thread is still    *)
(* alive, wherever that thread is.                                         *)
(*                                                                         *)
(* Chunks are numbered in the order the reader threads read them from the  *)
(* port: chunk i is the i-th non-empty result of line 136.  Bytes taken by *)
(* read_line and read_bytes belong to no chunk.                            *)
(***************************************************************************)
EXTENDS Integers, Sequences, FiniteSets, TLC

\* Bounds of the model.
MaxThreads == 2     \* reader threads alive at the same time
MaxChunks  == 2     \* chunks the reader threads read in a run
MaxOrphans == 1     \* Serial objects left open when connect replaces serial_conn

Threads   == 1..MaxThreads
Chunks    == 1..MaxChunks
Listeners == {"f", "g"}        \* the callables passed to set_callback
NoThread   == 0                \* read_thread = None
NoData     == 0                \* `data` not bound
NoListener == "None"           \* callback = None
NoRet == <<"none", "none", FALSE>>
NoExc == "none"               \* the port raised nothing
NoLine == <<"None">>           \* read_line returned None

VARIABLES
    portGiven,      \* configuration: self.port is a device name (TRUE) or None
    is_connected,   \* self.is_connected
    is_reading,     \* self.is_reading
    serial_conn,    \* self.serial_conn: "None", or the Serial object, "open" or "closed"
    read_thread,    \* self.read_thread: the thread started last, or NoThread
    callback,       \* self.callback: a listener, or NoListener
    data_queue,     \* self.data_queue: the chunks, oldest first
    orphans,        \* Serial objects still open that serial_conn no longer refers to
    nextChunk,      \* chunks read by the reader threads so far
    tpc,            \* position of each reader thread in _read_loop
    tdata,          \* the local `data` of each reader thread
    tcb,            \* the callable each reader thread loaded at line 140
    cpc,            \* position of the caller
    ret,            \* <<method, result, called the port>>: what the caller's method
                    \* returned in the step just taken; NoRet after any other step
    exc,            \* the exception the port raised to the caller's method in the
                    \* step just taken: SERR, UERR, or NoExc
    drained,        \* history: chunks returned by get_queued_data, in order
    cbLog,          \* history: <<listener, chunk>> of every callback invocation
    failedSince,    \* history: a reader thread caught a SerialException since the
                    \* last connect that succeeded
    idleAtCall,     \* history: the method the caller is in was called with no
                    \* reader thread alive
    wire,           \* loopback port: the bytes written and not yet read back
    written,        \* loopback port: the argument of the last write
    lineOut         \* loopback port: what the last read_line returned

vars == <<portGiven, is_connected, is_reading, serial_conn, read_thread, callback,
          data_queue, orphans, nextChunk, tpc, tdata, cpc, ret, exc,
          drained, cbLog, failedSince, idleAtCall, tcb, wire, written, lineOut>>

session == <<is_connected, is_reading, serial_conn, read_thread, callback, data_queue>>
port    == <<orphans, nextChunk>>
readers == <<tpc, tdata, tcb>>
loopback == <<wire, written, lineOut>>
hist    == <<drained, cbLog, failedSince>>

Alive(t) == tpc[t] # "dead"
AliveThreads == {t \in Threads : Alive(t)}
FreeThreads == {t \in Threads : ~Alive(t)}
IsOpen(conn) == conn = "open"
Min(S) == CHOOSE x \in S : \A y \in S : x <= y

\* The two kinds of error a call on the port ends in: serial.SerialException
\* (caught by the `except serial.SerialException` clauses) and anything else.
SERR == "SerialException"
UERR == "Exception"
Errors == {SERR, UERR}

----------------------------------------------------------------------------
(* __init__, lines 52-57 *)
Init ==
    /\ portGiven \in BOOLEAN
    /\ is_connected = FALSE
    /\ is_reading = FALSE
    /\ serial_conn = "None"
    /\ read_thread = NoThread
    /\ callback = NoListener
    /\ data_queue = <<>>
    /\ orphans = 0
    /\ nextChunk = 0
    /\ tpc = [t \in Threads |-> "dead"]
    /\ tdata = [t \in Threads |-> NoData]
    /\ cpc = "idle"
    /\ ret = NoRet
    /\ exc = NoExc
    /\ drained = <<>>
    /\ cbLog = <<>>
    /\ failedSince = FALSE
    /\ idleAtCall = FALSE
    /\ tcb = [t \in Threads |-> NoListener]
    /\ wire = <<>>
    /\ written = <<>>
    /\ lineOut = NoLine

----------------------------------------------------------------------------
(* _read_loop, thread t *)

Goto(t, pc, d) ==
    /\ tpc' = [tpc EXCEPT ![t] = pc]
    /\ tdata' = [tdata EXCEPT ![t] = d]
    /\ tcb' = [tcb EXCEPT ![t] = IF pc = "call" THEN callback ELSE NoListener]

\* A step of a reader thread returns nothing to the caller.
ReaderStep ==
    /\ cpc' = cpc /\ ret' = NoRet /\ exc' = NoExc
    /\ idleAtCall' = idleAtCall
    /\ UNCHANGED loopback

\* Mutant of HandleSerialException: the handler forgets line 147.
HandleSerialException_KeepsConnected(t) ==
    /\ is_connected' = is_connected
    /\ failedSince' = TRUE
    /\ Goto(t, "dead", NoData)

\* lines 145-148: except serial.SerialException: is_connected = False; break
HandleSerialException(t) ==
    /\ is_connected' = FALSE
    /\ failedSince' = TRUE
    /\ Goto(t, "dead", NoData)

\* lines 149-151: except Exception: break
HandleException(t) ==
    /\ UNCHANGED <<is_connected, failedSince>>
    /\ Goto(t, "dead", NoData)

\* Mutant of LoopTest: the loop tests is_connected only.
LoopTest_IgnoresReading(t) ==
    /\ tpc[t] = "loop"
    /\ Goto(t, IF is_connected THEN "poll" ELSE "dead", NoData)
    /\ ReaderStep
    /\ UNCHANGED <<portGiven, session, port, hist>>

\* line 133: while self.is_reading and self.is_connected
LoopTest(t) ==
    /\ tpc[t] = "loop"
    /\ Goto(t, IF is_reading /\ is_connected THEN "poll" ELSE "dead", NoData)
    /\ ReaderStep
    /\ UNCHANGED <<portGiven, session, port, hist>>

\* lines 135, 142-143: in_waiting is 0; sleep, then back to the loop test
InWaitingZero(t) ==
    /\ tpc[t] = "poll"
    /\ IsOpen(serial_conn)
    /\ Goto(t, "loop", NoData)
    /\ ReaderStep
    /\ UNCHANGED <<portGiven, session, port, hist>>

\* lines 135-137: in_waiting > 0 and read() returns a non-empty chunk
ReadChunk(t) ==
    /\ tpc[t] = "poll"
    /\ IsOpen(serial_conn)
    /\ nextChunk < MaxChunks
    /\ nextChunk' = nextChunk + 1
    /\ Goto(t, "put", nextChunk + 1)
    /\ ReaderStep
    /\ UNCHANGED <<portGiven, session, orphans, hist>>

\* lines 135-137: in_waiting > 0 but read() times out and returns b'' (the
\* bytes went to another reader of the port): `if data` is false
ReadEmpty(t) ==
    /\ tpc[t] = "poll"
    /\ IsOpen(serial_conn)
    /\ Goto(t, "loop", NoData)
    /\ ReaderStep
    /\ UNCHANGED <<portGiven, session, port, hist>>

\* lines 135-136, 145-151: in_waiting or read() raises.  It is the only
\* outcome on a Serial object that is not open.
PollRaises(t) ==
    /\ tpc[t] = "poll"
    /\ \E e \in Errors :
         IF e = SERR THEN HandleSerialException(t) ELSE HandleException(t)
    /\ ReaderStep
    /\ UNCHANGED <<portGiven, is_reading, serial_conn, read_thread, callback, data_queue,
                   port, drained, cbLog>>

\* line 138: self.data_queue.put(data)
QueuePut(t) ==
    /\ tpc[t] = "put"
    /\ data_queue' = Append(data_queue, tdata[t])
    /\ Goto(t, "cb", tdata[t])
    /\ ReaderStep
    /\ UNCHANGED <<portGiven, is_connected, is_reading, serial_conn, read_thread, callback,
                   port, hist>>

\* line 139: `if self.callback` is false
CallbackNone(t) ==
    /\ tpc[t] = "cb"
    /\ callback = NoListener
    /\ Goto(t, "loop", NoData)
    /\ ReaderStep
    /\ UNCHANGED <<portGiven, session, port, hist>>

\* Mutant of CallbackLoad: the callable called is the first listener, whatever
\* self.callback holds now.
CallbackLoad_FirstListener(t) ==
    /\ tpc[t] = "cb"
    /\ callback # NoListener
    /\ tpc' = [tpc EXCEPT ![t] = "call"]
    /\ tcb' = [tcb EXCEPT ![t] = "f"]
    /\ tdata' = tdata
    /\ ReaderStep
    /\ UNCHANGED <<portGiven, session, port, hist>>

\* lines 139-140: `if self.callback` is true, and self.callback is loaded
\* for the call
CallbackLoad(t) ==
    /\ tpc[t] = "cb"
    /\ callback # NoListener
    /\ Goto(t, "call", tdata[t])
    /\ ReaderStep
    /\ UNCHANGED <<portGiven, session, port, hist>>

\* line 140: the callable loaded is called with data, and returns
CallbackReturns(t) ==
    /\ tpc[t] = "call"
    /\ cbLog' = Append(cbLog, <<tcb[t], tdata[t]>>)
    /\ Goto(t, "loop", NoData)
    /\ ReaderStep
    /\ UNCHANGED <<portGiven, session, port, drained, failedSince>>

\* line 140: the callable loaded is called with data, and raises; lines
\* 149-151 end the loop
CallbackRaises(t) ==
    /\ tpc[t] = "call"
    /\ cbLog' = Append(cbLog, <<tcb[t], tdata[t]>>)
    /\ HandleException(t)
    /\ ReaderStep
    /\ UNCHANGED <<portGiven, is_reading, serial_conn, read_thread, callback, data_queue,
                   port, drained>>

ReadLoop(t) ==
    \/ LoopTest(t)
    \/ InWaitingZero(t)
    \/ ReadChunk(t)
    \/ ReadEmpty(t)
    \/ PollRaises(t)
    \/ QueuePut(t)
    \/ CallbackNone(t)
    \/ CallbackLoad(t)
    \/ CallbackReturns(t)
    \/ CallbackRaises(t)

----------------------------------------------------------------------------
(* The caller's thread: connect, disconnect, set_callback, start_reading,  *)
(* stop_reading                                                            *)

\* The caller's method returns r in this step.
Return(r) ==
    /\ cpc' = "idle" /\ ret' = r /\ exc' = NoExc
    /\ idleAtCall' = FALSE
    /\ UNCHANGED loopback

\* The port raises e in the caller's method, which returns r in this step
\* (r says "raised" where the method lets e through).
Raise(e, r) ==
    /\ cpc' = "idle" /\ ret' = r /\ exc' = e
    /\ idleAtCall' = FALSE
    /\ UNCHANGED loopback

\* The caller's method is called in this step and goes on at pc.
Call(pc) ==
    /\ cpc' = pc /\ ret' = NoRet /\ exc' = NoExc
    /\ idleAtCall' = (AliveThreads = {})
    /\ UNCHANGED loopback

\* line 67: self.serial_conn = <new object>.  The object replaced is dropped
\* without close().  If it was open, the runtime decides: its finalizer runs
\* and closes it, or (no prompt finalization, or a reference to it is still
\* held) it stays open, out of the session's reach.
\* (Bound: at most MaxOrphans objects are left open.)
Rebind(conn) ==
    /\ serial_conn' = conn
    /\ \/ orphans' = orphans
       \/ IsOpen(serial_conn) /\ orphans < MaxOrphans /\ orphans' = orphans + 1

\* lines 66-79: serial.Serial(port=<name>, ...) returned a port that is open
ConnectOpen ==
    /\ cpc = "idle"
    /\ portGiven
    /\ Rebind("open")
    /\ is_connected' = TRUE
    /\ failedSince' = FALSE
    /\ Return(<<"connect", "ok", TRUE>>)
    /\ UNCHANGED <<portGiven, is_reading, read_thread, callback, data_queue, nextChunk,
                   readers, drained, cbLog>>

\* lines 66-76, 80-82: serial.Serial(port=None, ...) builds a port object
\* without opening it
ConnectNotOpen ==
    /\ cpc = "idle"
    /\ ~portGiven
    /\ Rebind("closed")
    /\ Return(<<"connect", "fail", TRUE>>)
    /\ UNCHANGED <<portGiven, is_connected, is_reading, read_thread, callback, data_queue,
                   nextChunk, readers, hist>>

\* Mutant of ConnectRaises: the handlers clear is_connected.
ConnectRaises_ClearsConnected ==
    /\ cpc = "idle"
    /\ \E e \in Errors : Raise(e, <<"connect", "fail", TRUE>>)
    /\ is_connected' = FALSE
    /\ UNCHANGED <<portGiven, is_reading, serial_conn, read_thread, callback, data_queue,
                   port, readers, hist>>

\* lines 67, 84-89: serial.Serial(...) raises; both handlers return False
ConnectRaises ==
    /\ cpc = "idle"
    /\ \E e \in Errors : Raise(e, <<"connect", "fail", TRUE>>)
    /\ UNCHANGED <<portGiven, session, port, readers, hist>>

connect == ConnectOpen \/ ConnectNotOpen \/ ConnectRaises

\* lines 100-107
set_callback ==
    /\ cpc = "idle"
    /\ \E fn \in Listeners : callback' = fn
    /\ Return(<<"set_callback", "none", FALSE>>)
    /\ UNCHANGED <<portGiven, is_connected, is_reading, serial_conn, read_thread, data_queue,
                   port, readers, hist>>

\* lines 111-113: if not self.is_connected: return
StartReadingNotConnected ==
    /\ cpc = "idle"
    /\ ~is_connected
    /\ Return(<<"start_reading", "notconnected", FALSE>>)
    /\ UNCHANGED <<portGiven, session, port, readers, hist>>

\* line 111 passed.  (Bound: a thread slot is free for the thread of line 120.)
StartReadingConnected ==
    /\ cpc = "idle"
    /\ is_connected
    /\ FreeThreads # {}
    /\ Call("start2")
    /\ UNCHANGED <<portGiven, session, port, readers, hist>>

\* lines 115-117: if self.is_reading: return
StartReadingAlready ==
    /\ cpc = "start2"
    /\ is_reading
    /\ Return(<<"start_reading", "already", FALSE>>)
    /\ UNCHANGED <<portGiven, session, port, readers, hist>>

\* lines 119-122: is_reading = True; read_thread = Thread(_read_loop); start()
StartReadingSpawn ==
    /\ cpc = "start2"
    /\ ~is_reading
    /\ is_reading' = TRUE
    /\ LET t == Min(FreeThreads) IN
         /\ read_thread' = t
         /\ Goto(t, "loop", NoData)
    /\ Return(<<"start_reading", "started", FALSE>>)
    /\ UNCHANGED <<portGiven, is_connected, serial_conn, callback, data_queue, port, hist>>

start_reading ==
    \/ StartReadingNotConnected
    \/ StartReadingConnected
    \/ StartReadingAlready
    \/ StartReadingSpawn

\* line 126: self.is_reading = False
StopFlag == is_reading' = FALSE

\* lines 127-128: how `if self.read_thread: self.read_thread.join(timeout=2.0)` ends
JoinResult ==
    IF read_thread = NoThread THEN "nothread"
    ELSE IF Alive(read_thread) THEN "timeout" ELSE "joined"

\* lines 124-126
StopReadingCall ==
    /\ cpc = "idle"
    /\ StopFlag
    /\ Call("stop_join")
    /\ UNCHANGED <<portGiven, is_connected, serial_conn, read_thread, callback, data_queue,
                   port, readers, hist>>

\* lines 127-129
StopReadingReturn ==
    /\ cpc = "stop_join"
    /\ Return(<<"stop_reading", JoinResult, FALSE>>)
    /\ UNCHANGED <<portGiven, session, port, readers, hist>>

stop_reading == StopReadingCall \/ StopReadingReturn

\* line 93, into lines 124-126
DisconnectCall ==
    /\ cpc = "idle"
    /\ StopFlag
    /\ Call("disc_join")
    /\ UNCHANGED <<portGiven, is_connected, serial_conn, read_thread, callback, data_queue,
                   port, readers, hist>>

\* Mutant of CloseAndClear: the port is closed, line 97 is missing.
CloseAndClear_KeepsConnected ==
    /\ serial_conn' = "closed"
    /\ is_connected' = is_connected

\* lines 96-97: close() returned; self.is_connected = False
CloseAndClear ==
    /\ serial_conn' = "closed"
    /\ is_connected' = FALSE

\* Mutant of DisconnectClose: disconnect empties the queue.
DisconnectClose_ClearsQueue ==
    /\ cpc = "disc_join"
    /\ IsOpen(serial_conn)
    /\ CloseAndClear
    /\ data_queue' = <<>>
    /\ Return(<<"disconnect", "ok", TRUE>>)
    /\ UNCHANGED <<portGiven, is_reading, read_thread, callback,
                   port, readers, hist>>

\* lines 127-129, then 95-98: the port is open; close it
DisconnectClose ==
    /\ cpc = "disc_join"
    /\ IsOpen(serial_conn)
    /\ CloseAndClear
    /\ Return(<<"disconnect", "ok", TRUE>>)
    /\ UNCHANGED <<portGiven, is_reading, read_thread, callback, data_queue,
                   port, readers, hist>>

\* lines 127-129, then 95-96: close() raises and nothing catches it: line 97
\* is not reached, and the object still reports is_open (pyserial clears
\* is_open as the last statement of close)
DisconnectCloseRaises ==
    /\ cpc = "disc_join"
    /\ IsOpen(serial_conn)
    /\ \E e \in Errors : Raise(e, <<"disconnect", "raised", TRUE>>)
    /\ UNCHANGED <<portGiven, session, port, readers, hist>>

\* lines 127-129, then 95: no port object, or one that is not open
DisconnectNothingOpen ==
    /\ cpc = "disc_join"
    /\ ~IsOpen(serial_conn)
    /\ Return(<<"disconnect", "ok", FALSE>>)
    /\ UNCHANGED <<portGiven, session, port, readers, hist>>

disconnect ==
    \/ DisconnectCall
    \/ DisconnectClose
    \/ DisconnectCloseRaises
    \/ DisconnectNothingOpen

----------------------------------------------------------------------------
(* Direct reads and writes, the queue, the port information *)

\* What a direct call returns when its port call raised e: lines 169-171,
\* 192-194 and 227-229 catch serial.SerialException only
Caught(e, failure) == IF e = SERR THEN failure ELSE "raised"

\* Mutant of NotConnectedReturn: the is_connected test is missing, the method
\* goes on to the port call, which fails on the missing or closed port.
NotConnectedReturn_CallsPort(method, result) ==
    /\ cpc = "idle"
    /\ ~is_connected
    /\ \E e \in Errors : Raise(e, <<method, Caught(e, result), TRUE>>)
    /\ UNCHANGED <<portGiven, session, port, readers, hist>>

\* lines 160-162, 183-185, 218-220: if not self.is_connected: return None / False
NotConnectedReturn(method, result) ==
    /\ cpc = "idle"
    /\ ~is_connected
    /\ Return(<<method, result, FALSE>>)
    /\ UNCHANGED <<portGiven, session, port, readers, hist>>

\* lines 165-167, 188-190: the port returned bytes, which are returned
DirectReadData(method) ==
    /\ cpc = "idle"
    /\ is_connected
    /\ IsOpen(serial_conn)
    /\ Return(<<method, "data", TRUE>>)
    /\ UNCHANGED <<portGiven, session, port, readers, hist>>

\* lines 165-168, 188-191: the port timed out and returned b''
DirectReadEmpty(method) ==
    /\ cpc = "idle"
    /\ is_connected
    /\ IsOpen(serial_conn)
    /\ Return(<<method, "absent", TRUE>>)
    /\ UNCHANGED <<portGiven, session, port, readers, hist>>

DirectReadRaises(method) ==
    /\ cpc = "idle"
    /\ is_connected
    /\ \E e \in Errors : Raise(e, <<method, Caught(e, "absent"), TRUE>>)
    /\ UNCHANGED <<portGiven, session, port, readers, hist>>

\* lines 153-171
read_line ==
    \/ NotConnectedReturn("read_line", "absent")
    \/ DirectReadData("read_line")
    \/ DirectReadEmpty("read_line")
    \/ DirectReadRaises("read_line")

\* lines 173-194
read_bytes ==
    \/ NotConnectedReturn("read_bytes", "absent")
    \/ DirectReadData("read_bytes")
    \/ DirectReadEmpty("read_bytes")
    \/ DirectReadRaises("read_bytes")

\* lines 222-226: write and flush returned
WriteOk ==
    /\ cpc = "idle"
    /\ is_connected
    /\ IsOpen(serial_conn)
    /\ Return(<<"write", "ok", TRUE>>)
    /\ UNCHANGED <<portGiven, session, port, readers, hist>>

\* Mutant of WriteRaises: the handler of lines 227-229 clears is_connected.
WriteRaises_Disconnects ==
    /\ cpc = "idle"
    /\ is_connected
    /\ \E e \in Errors : Raise(e, <<"write", Caught(e, "fail"), TRUE>>)
    /\ is_connected' = FALSE
    /\ UNCHANGED <<portGiven, is_reading, serial_conn, read_thread, callback, data_queue,
                   port, readers, hist>>

\* lines 222-224, 227-229: write or flush raised
WriteRaises ==
    /\ cpc = "idle"
    /\ is_connected
    /\ \E e \in Errors : Raise(e, <<"write", Caught(e, "fail"), TRUE>>)
    /\ UNCHANGED <<portGiven, session, port, readers, hist>>

\* lines 208-229
write ==
    \/ NotConnectedReturn("write", "fail")
    \/ WriteOk
    \/ WriteRaises

\* Mutant of GetQueuedChunk: the newest chunk is taken instead of the oldest.
GetQueuedChunk_PopsNewest ==
    /\ cpc = "idle"
    /\ data_queue # <<>>
    /\ data_queue' = SubSeq(data_queue, 1, Len(data_queue) - 1)
    /\ drained' = Append(drained, data_queue[Len(data_queue)])
    /\ Return(<<"get_queued_data", "data", FALSE>>)
    /\ UNCHANGED <<portGiven, is_connected, is_reading, serial_conn, read_thread, callback,
                   port, readers, cbLog, failedSince>>

\* lines 203-204: get_nowait() on a queue that holds a chunk
GetQueuedChunk ==
    /\ cpc = "idle"
    /\ data_queue # <<>>
    /\ data_queue' = Tail(data_queue)
    /\ drained' = Append(drained, Head(data_queue))
    /\ Return(<<"get_queued_data", "data", FALSE>>)
    /\ UNCHANGED <<portGiven, is_connected, is_reading, serial_conn, read_thread, callback,
                   port, readers, cbLog, failedSince>>

\* lines 203-206: queue.Empty, caught
GetQueuedEmpty ==
    /\ cpc = "idle"
    /\ data_queue = <<>>
    /\ Return(<<"get_queued_data", "absent", FALSE>>)
    /\ UNCHANGED <<portGiven, session, port, readers, hist>>

get_queued_data == GetQueuedChunk \/ GetQueuedEmpty

\* lines 238-239: no port object
PortInfoEmpty ==
    /\ cpc = "idle"
    /\ serial_conn = "None"
    /\ Return(<<"get_port_info", "empty", FALSE>>)
    /\ UNCHANGED <<portGiven, session, port, readers, hist>>

\* lines 241-250: the mapping is built; in_waiting is read if the port is open
PortInfoMapping ==
    /\ cpc = "idle"
    /\ serial_conn # "None"
    /\ Return(<<"get_port_info", "info", IsOpen(serial_conn)>>)
    /\ UNCHANGED <<portGiven, session, port, readers, hist>>

\* line 249: in_waiting of the open port raises; nothing catches it
PortInfoRaises ==
    /\ cpc = "idle"
    /\ IsOpen(serial_conn)
    /\ \E e \in Errors : Raise(e, <<"get_port_info", "raised", TRUE>>)
    /\ UNCHANGED <<portGiven, session, port, readers, hist>>

get_port_info == PortInfoEmpty \/ PortInfoMapping \/ PortInfoRaises

----------------------------------------------------------------------------
(* write and read_line on a loopback port: the bytes given to               *)
(* serial_conn.write come back from serial_conn.readline.  A byte is a      *)
(* letter ("A"), a space ("SP"), a byte that is not valid UTF-8 ("BAD"), a  *)
(* carriage return ("CR") or a line feed ("LF").                            *)

MaxLine == 3        \* bytes of a line, terminator not counted

LineBytes == {"A", "SP", "BAD"}
Lines == UNION {[1..n -> LineBytes] : n \in 0..MaxLine}
Terminators == {<<"LF">>, <<"CR", "LF">>}
Whitespace == {"SP", "CR", "LF"}
Max(S) == CHOOSE x \in S : \A y \in S : y <= x

\* serial_conn.readline(): the bytes up to and with the first line feed, or,
\* the timeout over, the bytes there are
readline(buf) ==
    LET ends == {i \in DOMAIN buf : buf[i] = "LF"}
    IN  IF ends = {} THEN buf ELSE SubSeq(buf, 1, Min(ends))

\* line 167: bytes.decode('utf-8', errors='ignore') drops the bytes that are
\* not valid UTF-8
decode(b) == SelectSeq(b, LAMBDA c : c # "BAD")

\* Mutant of strip: nothing is stripped.
strip_Nothing(s) == s

\* line 167: str.strip() removes the whitespace at both ends
strip(s) ==
    LET keep == {i \in DOMAIN s : s[i] \notin Whitespace}
    IN  IF keep = {} THEN <<>> ELSE SubSeq(s, Min(keep), Max(keep))

\* A session that connect has opened on the loopback port.
LoopbackInit ==
    /\ portGiven = TRUE
    /\ is_connected = TRUE
    /\ is_reading = FALSE
    /\ serial_conn = "open"
    /\ read_thread = NoThread
    /\ callback = NoListener
    /\ data_queue = <<>>
    /\ orphans = 0
    /\ nextChunk = 0
    /\ tpc = [t \in Threads |-> "dead"]
    /\ tdata = [t \in Threads |-> NoData]
    /\ tcb = [t \in Threads |-> NoListener]
    /\ cpc = "idle"
    /\ ret = <<"connect", "ok", TRUE>>
    /\ exc = NoExc
    /\ drained = <<>>
    /\ cbLog = <<>>
    /\ failedSince = FALSE
    /\ idleAtCall = FALSE
    /\ wire = <<>>
    /\ written = <<>>
    /\ lineOut = NoLine

\* The caller's method returns r in this step; the loopback port has changed.
LoopbackReturn(r) == cpc' = "idle" /\ ret' = r /\ exc' = NoExc /\ idleAtCall' = FALSE

\* lines 218-226: write(line + terminator); the bytes are on the wire.
\* (Bound: the line written before has been read back.)
LoopbackWrite ==
    /\ cpc = "idle"
    /\ is_connected
    /\ wire = <<>>
    /\ \E line \in Lines, term \in Terminators :
         /\ written' = <<line, term>>
         /\ wire' = wire \o line \o term
    /\ lineOut' = lineOut
    /\ LoopbackReturn(<<"write", "ok", TRUE>>)
    /\ UNCHANGED <<portGiven, session, port, readers, hist>>

\* lines 160-167: readline() returned bytes; they are decoded and stripped
LoopbackReadLine ==
    /\ cpc = "idle"
    /\ is_connected
    /\ wire # <<>>
    /\ LET line == readline(wire) IN
         /\ wire' = SubSeq(wire, Len(line) + 1, Len(wire))
         /\ lineOut' = strip(decode(line))
    /\ written' = written
    /\ LoopbackReturn(<<"read_line", "data", TRUE>>)
    /\ UNCHANGED <<portGiven, session, port, readers, hist>>

\* lines 160-168: nothing on the wire; readline() times out, returns b''
LoopbackReadNothing ==
    /\ cpc = "idle"
    /\ is_connected
    /\ wire = <<>>
    /\ lineOut' = NoLine
    /\ UNCHANGED <<wire, written>>
    /\ LoopbackReturn(<<"read_line", "absent", TRUE>>)
    /\ UNCHANGED <<portGiven, session, port, readers, hist>>

LoopbackNext == LoopbackWrite \/ LoopbackReadLine \/ LoopbackReadNothing

LoopbackSpec == LoopbackInit /\ [][LoopbackNext]_vars

----------------------------------------------------------------------------
Caller ==
    \/ connect
    \/ set_callback
    \/ start_reading
    \/ stop_reading
    \/ disconnect
    \/ read_line
    \/ read_bytes
    \/ get_queued_data
    \/ write
    \/ get_port_info

Next == Caller \/ \E t \in Threads : ReadLoop(t)

Spec == Init /\ [][Next]_vars

----------------------------------------------------------------------------
(* The stop protocol under fair scheduling, with a port whose calls always  *)
(* return and a callback that always returns: the reader threads raise      *)
(* nothing, the port stays open (no disconnect), and a reader thread that   *)
(* can take a step eventually takes one.                                    *)

ReadLoopReturning(t) ==
    \/ LoopTest(t)
    \/ InWaitingZero(t)
    \/ ReadChunk(t)
    \/ ReadEmpty(t)
    \/ QueuePut(t)
    \/ CallbackNone(t)
    \/ CallbackLoad(t)
    \/ CallbackReturns(t)

LiveNext ==
    \/ connect
    \/ set_callback
    \/ start_reading
    \/ stop_reading
    \/ get_queued_data
    \/ \E t \in Threads : ReadLoopReturning(t)

LiveSpec ==
    /\ Init
    /\ [][LiveNext]_vars
    /\ \A t \in Threads : WF_vars(ReadLoopReturning(t))

----------------------------------------------------------------------------
TypeOK ==
    /\ portGiven \in BOOLEAN
    /\ is_connected \in BOOLEAN
    /\ is_reading \in BOOLEAN
    /\ serial_conn \in {"None", "open", "closed"}
    /\ read_thread \in Threads \cup {NoThread}
    /\ callback \in Listeners \cup {NoListener}
    /\ data_queue \in Seq(Chunks)
    /\ orphans \in 0..MaxOrphans
    /\ nextChunk \in 0..MaxChunks
    /\ tpc \in [Threads -> {"dead", "loop", "poll", "put", "cb", "call"}]
    /\ tdata \in [Threads -> Chunks \cup {NoData}]
    /\ tcb \in [Threads -> Listeners \cup {NoListener}]
    /\ cpc \in {"idle", "start2", "stop_join", "disc_join"}
    /\ exc \in Errors \cup {NoExc}
    /\ failedSince \in BOOLEAN
    /\ idleAtCall \in BOOLEAN
    /\ wire \in Seq(LineBytes \cup Whitespace)
    /\ written \in {<<>>} \cup (Lines \X Terminators)
    /\ lineOut \in {NoLine} \cup Seq(LineBytes \cup Whitespace)

----------------------------------------------------------------------------
(* Properties *)

\* Every chunk put on the queue so far, oldest first.
Enqueued == drained \o data_queue

\* The chunks the callback was invoked with, in invocation order.
Delivered == [i \in DOMAIN cbLog |-> cbLog[i][2]]

\* Chunks read from the port and not yet on the queue.
InFlight == {t \in Threads : tpc[t] = "put"}

\* stop_reading has returned (by itself or inside disconnect) and
\* start_reading has not set is_reading since.  is_reading is false in the
\* initial state, after line 126 and nowhere else; after line 126 the caller is
\* in the join until stop_reading returns.
Stopped == ~is_reading /\ cpc \in {"idle", "start2"}

\* Thread t is started in this step.
Spawned(t) == ~Alive(t) /\ tpc'[t] # "dead"

\* C1: the chunks come off the queue in the order the reader read them from
\* the port, none lost, none twice (the i-th chunk enqueued is the i-th chunk
\* read, and every chunk read is on the queue or about to be put there), and
\* the callback is invoked with them in that same order.
C1_OrderPreserved ==
    /\ \A i \in DOMAIN Enqueued : Enqueued[i] = i
    /\ Len(Enqueued) + Cardinality(InFlight) = nextChunk
    /\ \A i, j \in DOMAIN Delivered : i < j => Delivered[i] < Delivered[j]

\* C2: at most one reader thread is alive, in every reachable state.
C2_AtMostOneReader == Cardinality(AliveThreads) <= 1

\* C3: start_reading called on a connected session with no reader thread
\* alive starts a reader thread.  (cpc = "start2" says that the call found
\* is_connected true at line 111.)
C3_StartSpawnsWhenIdle ==
    [][(cpc = "start2" /\ idleAtCall /\ cpc' = "idle") => AliveThreads' # {}]_vars

\* C4: no public method lets an error escape to the caller.
C4_NoErrorEscapes == ret[2] # "raised"

\* C5, as claimed: once stop_reading has returned, and until start_reading
\* starts a thread again, no reader thread reads a chunk from the port and
\* none puts a chunk on the queue.
C5_NoReadAfterStop ==
    [][Stopped => \A t \in Threads :
            /\ ~(tpc[t] = "poll" /\ tpc'[t] = "put")
            /\ ~(tpc[t] = "put" /\ tpc'[t] = "cb")]_vars

\* C5, amended: once stop_reading has returned, and until start_reading
\* starts a thread again, no reader thread begins another iteration of the
\* loop: a thread that reaches the loop test ends there.  stop_reading leaves
\* is_reading false whenever it returns, also when no thread was ever started
\* or the thread has already gone.
C5_NoIterationAfterStop ==
    [][/\ Stopped => \A t \in Threads : tpc[t] = "loop" => tpc'[t] \in {"loop", "dead"}
       /\ ret'[1] = "stop_reading" => ~is_reading' /\ Stopped']_vars

\* C5 witness: stop_reading has returned after its join timed out, with the
\* reader thread about to poll the port.
C5_Witness ==
    /\ ret = <<"stop_reading", "timeout", FALSE>>
    /\ \E t \in Threads : tpc[t] = "poll"

\* C6: start_reading on a session that is not connected starts no thread and
\* changes no flag, and a reader thread is only ever started in a state where
\* is_connected is true.
C6_SpawnOnlyWhenConnected ==
    [][/\ (~is_connected /\ cpc = "idle" /\ ret'[1] = "start_reading")
            => UNCHANGED <<session, readers>>
       /\ \A t \in Threads : Spawned(t) => is_connected]_vars

\* C7: a SerialException in the reader loop (failedSince becomes true) ends
\* the thread at its poll and makes is_connected false, with no chunk read or
\* put on the queue and the caller where it was; from then until a connect
\* succeeds is_connected stays false, and a start_reading that is called does
\* not get past line 113 and starts no thread.
C7_ReaderFailureDisconnects ==
    [][/\ (~failedSince /\ failedSince')
            => /\ \E t \in Threads : tpc[t] = "poll" /\ tpc'[t] = "dead"
               /\ ~is_connected'
               /\ UNCHANGED <<data_queue, nextChunk, cpc, is_reading>>
       /\ failedSince' => ~is_connected'
       /\ (failedSince /\ cpc = "idle")
            => cpc' # "start2" /\ \A t \in Threads : ~Spawned(t)]_vars

\* C7 witness: after a reader thread died of a SerialException, a
\* start_reading was refused.
C7_Witness ==
    /\ failedSince
    /\ AliveThreads = {}
    /\ is_reading
    /\ ret = <<"start_reading", "notconnected", FALSE>>

\* C8: when disconnect returns, is_connected and is_reading are false and the
\* port object, if there is one, is closed; a disconnect on a session already
\* in that state changes nothing of the session.
Down == ~is_connected /\ ~is_reading /\ ~IsOpen(serial_conn)

C8_DisconnectLeavesDown ==
    [][/\ (ret'[1] = "disconnect" /\ ret'[2] = "ok") => Down'
       /\ (Down /\ cpc' # cpc /\ "disc_join" \in {cpc, cpc'})
            => UNCHANGED <<session, orphans>> /\ ret'[2] # "raised"]_vars

\* C8 witness: disconnect has closed the port and returned while a reader
\* thread was still alive.
C8_Witness ==
    /\ ret = <<"disconnect", "ok", TRUE>>
    /\ AliveThreads # {}

\* C9, as claimed: after connect returns, is_connected is true if it returned
\* success and false if it returned failure.
C9_FailureMeansDisconnected ==
    ret[1] = "connect" => (is_connected <=> ret[2] = "ok")

\* C9, amended: connect returns success exactly when it got an open port
\* object, and then is_connected is true; when it returns failure it leaves
\* is_connected as it was (false if it was false) and the session holds no
\* newly opened port.
C9_ConnectResult ==
    [][ret'[1] = "connect" =>
          IF ret'[2] = "ok"
          THEN is_connected' /\ IsOpen(serial_conn')
          ELSE /\ is_connected' = is_connected
               /\ serial_conn' \in {serial_conn, "closed"}]_vars

\* C9 witness: connect has returned failure on a session that was connected.
C9_Witness ==
    /\ ret = <<"connect", "fail", TRUE>>
    /\ is_connected

\* C10: on a session that is not connected, write returns failure, read_line
\* and read_bytes return absence, without a call on the port and without a
\* change to the session, the port or the reader threads.
C10_DisconnectedDirectCalls ==
    [][(~is_connected /\ ret'[1] \in {"write", "read_line", "read_bytes"})
          => /\ ret'[2] = (IF ret'[1] = "write" THEN "fail" ELSE "absent")
             /\ ret'[3] = FALSE
             /\ UNCHANGED <<session, port, readers>>]_vars

\* C10 witness: read_line has returned absence on a session that lost its
\* connection in the reader loop, with chunks still queued.
C10_Witness ==
    /\ ret = <<"read_line", "absent", FALSE>>
    /\ failedSince
    /\ data_queue # <<>>

\* C11: get_queued_data returns in the step it is called (it waits for
\* nothing) and raises nothing; on a queue that holds chunks it returns the
\* oldest one and leaves the others in their order, on an empty queue it
\* returns None and leaves the queue as it is; either way the flags, the port
\* and the reader threads are as they were, whatever the state of the session.
C11_GetQueuedData ==
    [][ret'[1] = "get_queued_data" =>
          /\ cpc = "idle" /\ cpc' = "idle"
          /\ ret'[2] = (IF data_queue # <<>> THEN "data" ELSE "absent")
          /\ IF data_queue # <<>>
             THEN /\ drained' = Append(drained, Head(data_queue))
                  /\ data_queue' = Tail(data_queue)
             ELSE UNCHANGED <<drained, data_queue>>
          /\ UNCHANGED <<is_connected, is_reading, serial_conn, read_thread, callback,
                         port, readers>>]_vars

\* C11 witness: get_queued_data has returned the older of two queued chunks
\* on a session that is not connected while a reader thread is still alive.
C11_Witness ==
    /\ ret = <<"get_queued_data", "data", FALSE>>
    /\ drained = <<1>>
    /\ data_queue = <<2>>
    /\ ~is_connected
    /\ AliveThreads # {}

\* The methods that call the port directly.
DirectMethods == {"read_line", "read_bytes", "write"}

\* C12: read_line, read_bytes and write make no call on the port while a
\* reader thread is inside its own poll of the port.
C12_NoDirectCallWhileReading ==
    (ret[1] \in DirectMethods /\ ret[3]) => \A t \in Threads : tpc[t] # "poll"

\* The number of elements of s that are c.
Count(s, c) == Cardinality({i \in DOMAIN s : s[i] = c})

\* s is t with elements left out.
RECURSIVE IsSubseq(_, _)
IsSubseq(s, t) ==
    IF s = <<>> THEN TRUE
    ELSE IF t = <<>> THEN FALSE
    ELSE IF Head(s) = Head(t) THEN IsSubseq(Tail(s), Tail(t))
    ELSE IsSubseq(s, Tail(t))

\* A line of valid text with no whitespace at either end.
Clean(line) ==
    /\ \A i \in DOMAIN line : line[i] # "BAD"
    /\ line # <<>> => line[1] = "A" /\ line[Len(line)] = "A"

\* C13, as claimed: on the loopback port, write(line + terminator) returns
\* True and the read_line that follows returns the line, the terminator taken
\* off and nothing else.
C13_RoundTripExact ==
    [][/\ ret'[1] = "write" => ret'[2] = "ok"
       /\ (ret'[1] = "read_line" /\ wire # <<>>)
            => ret'[2] = "data" /\ lineOut' = written[1]]_vars

\* C13, amended: on the loopback port, write(line + terminator) returns True
\* and puts exactly these bytes on the wire, and the read_line that follows
\* takes them all and returns the line without the terminator, without its
\* bytes that are not valid UTF-8 and without the whitespace at its two ends:
\* the letters all stay, in their order.  A line of valid text that neither
\* begins nor ends with whitespace comes back as it was written.
C13_RoundTrip ==
    [][/\ ret'[1] = "write"
            => ret'[2] = "ok" /\ wire' = wire \o written'[1] \o written'[2]
       /\ (ret'[1] = "read_line" /\ wire # <<>>)
            => /\ ret'[2] = "data"
               /\ wire' = <<>>
               /\ Clean(written[1]) => lineOut' = written[1]
               /\ IsSubseq(lineOut', written[1])
               /\ Count(lineOut', "A") = Count(written[1], "A")
               /\ Count(lineOut', "BAD") = 0
               /\ lineOut' # <<>> => lineOut'[1] = "A" /\ lineOut'[Len(lineOut')] = "A"]_vars

\* C13 witness: a line with a space inside has come back as it was written.
C13_Witness ==
    /\ ret = <<"read_line", "data", TRUE>>
    /\ written = << <<"A", "SP", "A">>, <<"CR", "LF">> >>
    /\ lineOut = <<"A", "SP", "A">>

\* Thread t calls the callable it loaded in this step.
Invokes(t) == tpc[t] = "call" /\ tpc'[t] # "call"

\* No chunk is in the log of callback invocations twice.
DeliveredOnce(log) == \A i, j \in DOMAIN log : log[i][2] = log[j][2] => i = j

\* C14, as claimed: a chunk delivered after set_callback(fn) has returned
\* goes to fn, the callable self.callback holds, and to no listener
\* registered before; a chunk is delivered to one listener only; set_callback
\* ends no reader thread.
C14_DeliveredToCurrent ==
    [][/\ \A t \in Threads : Invokes(t) => cbLog' = Append(cbLog, <<callback, tdata[t]>>)
       /\ DeliveredOnce(cbLog')
       /\ ret'[1] = "set_callback" => tpc' = tpc]_vars

\* C14, amended: set_callback(fn) makes fn the registered listener and ends
\* no reader thread.  A reader thread that looks self.callback up (lines
\* 139-140) gets the listener registered then, and calls that one: a chunk
\* whose listener was looked up before set_callback(fn) returned still goes to
\* the listener registered before, every chunk looked up afterwards goes to
\* fn.  No chunk is delivered twice, to one listener or to two.
C14_ListenerReplaced ==
    [][/\ ret'[1] = "set_callback"
            => callback' \in Listeners /\ UNCHANGED <<readers, data_queue, cbLog>>
       /\ \A t \in Threads :
            /\ (tpc[t] = "cb" /\ tpc'[t] = "call") => tcb'[t] = callback
            /\ (tpc[t] = "call" /\ ~Invokes(t)) => tcb'[t] = tcb[t]
            /\ Invokes(t) => cbLog' = Append(cbLog, <<tcb[t], tdata[t]>>)
       /\ DeliveredOnce(cbLog')]_vars

\* C14 witness: set_callback("g") has returned while a reader thread, having
\* loaded listener "f", is about to call it.
C14_Witness ==
    /\ ret[1] = "set_callback"
    /\ callback = "g"
    /\ \E t \in Threads : tpc[t] = "call" /\ tcb[t] = "f"

\* C15: under LiveSpec, a reader thread that is alive when stop_reading is
\* called (the caller is past line 126) eventually ends, whatever the caller
\* does next.
C15_ReaderEndsAfterStop ==
    \A t \in Threads : (cpc = "stop_join" /\ Alive(t)) ~> ~Alive(t)

\* C16: the chunks the callback has been called with are, in the order of the
\* calls, a subsequence of the chunks put on the queue so far; a reader thread
\* calls the callback only with a chunk it has put on the queue; an iteration
\* whose poll finds no byte, or reads b'', puts nothing on the queue and calls
\* no callback.
C16_PushBeforeListener ==
    [][/\ IsSubseq(Delivered', Enqueued')
       /\ \A t \in Threads :
            /\ Invokes(t) => \E i \in DOMAIN Enqueued : Enqueued[i] = tdata[t]
            /\ (tpc[t] = "poll" /\ tpc'[t] = "loop") => UNCHANGED <<data_queue, cbLog>>]_vars

\* C17: a serial.SerialException raised by the port inside read_line,
\* read_bytes or write makes the method return None (False for write) and
\* leaves is_connected, is_reading, the queue and the callback as they were;
\* is_connected goes from true to false in the SerialException handler of a
\* reader thread or in disconnect, nowhere else; a chunk is put on the queue
\* by a reader thread, never by a step of the caller.
C17_CallerFailureChangesNothing ==
    [][/\ (ret'[1] \in DirectMethods /\ exc' = SERR)
            => /\ ret'[2] = (IF ret'[1] = "write" THEN "fail" ELSE "absent")
               /\ UNCHANGED <<is_connected, is_reading, data_queue, callback>>
       /\ (is_connected /\ ~is_connected')
            => \/ \E t \in Threads : tpc[t] = "poll" /\ ~Alive(t)' /\ failedSince'
               \/ ret'[1] = "disconnect" /\ exc' = NoExc
       /\ Len(data_queue') > Len(data_queue)
            => /\ \E t \in Threads : tpc[t] = "put" /\ tpc'[t] = "cb"
               /\ cpc' = cpc /\ ret' = NoRet]_vars

\* C17 witness: write has returned False on a SerialException, on a session
\* that stays connected and reading, with a chunk queued and a listener set.
C17_Witness ==
    /\ ret = <<"write", "fail", TRUE>>
    /\ exc = SERR
    /\ is_connected /\ is_reading
    /\ data_queue # <<>>
    /\ callback # NoListener

\* C18: no Serial object that the session opened is open except the one
\* serial_conn refers to, in every reachable state.
C18_AtMostOneOpenHandle == orphans = 0

\* C19: a reader thread makes its calls on the port (in_waiting, read) only
\* while the Serial object is open, and the object is closed only when no
\* reader thread is about to make such a call.
C19_NoPollOnClosedPort ==
    [][/\ \A t \in Threads : (tpc[t] = "poll" /\ tpc'[t] # "poll") => IsOpen(serial_conn)
       /\ (IsOpen(serial_conn) /\ ~IsOpen(serial_conn'))
            => \A t \in Threads : tpc[t] # "poll"]_vars

\* s is the beginning of t.
IsPrefix(s, t) == Len(s) <= Len(t) /\ s = SubSeq(t, 1, Len(s))

\* C20: a chunk leaves the queue only in get_queued_data, which takes the
\* oldest; every other step of the caller or of a reader thread leaves the
\* chunks queued where they are (a reader thread may add one at the end).  So
\* the chunks ever put on the queue, those already returned followed by those
\* still queued, only grow at the end: none is lost or reordered by
\* stop_reading, disconnect, connect, start_reading, the end of a reader
\* thread or a callback that raises.
C20_OnlyGetRemoves ==
    [][/\ IsPrefix(Enqueued, Enqueued')
       /\ IsPrefix(drained, drained')
       /\ ret'[1] # "get_queued_data" => IsPrefix(data_queue, data_queue') /\ drained' = drained
       /\ ret'[1] = "get_queued_data" => Len(Enqueued') = Len(Enqueued)]_vars

\* C20 witness: after disconnect closed the port, with no reader thread left,
\* get_queued_data has returned the older of the two chunks of the session.
C20_Witness ==
    /\ ret = <<"get_queued_data", "data", FALSE>>
    /\ portGiven /\ serial_conn = "closed" /\ ~is_connected
    /\ AliveThreads = {}
    /\ drained = <<1>>
    /\ data_queue = <<2>>

====
